---- MODULE Spec2Model ----
(***************************************************************************)
(* Container lifecycle engine of godocker (package container): the         *)
(* in-memory registry runningContainers and the operations NewContainer,   *)
(* StopContainer, RemoveContainer and WaitContainer, together with the     *)
(* operating-system processes they spawn, signal and reap.                 *)
(*                                                                         *)
(* One caller drives the API (the functions take no lock and the CLI is    *)
(* single-threaded); pc is the caller's position.  RemoveContainer and     *)
(* WaitContainer are two steps each, so that the state between "stop" and  *)
(* "delete", and the state while process.Wait() blocks, are visible.       *)
(***************************************************************************)
EXTENDS Integers, Sequences, FiniteSets, TLC

\* ---------------------------------------------------------------- bounds
\* Number of NewContainer calls (each draws one id) in one run.
MaxIds == 2
\* Number of NewContainer calls in one run of the name-reuse scenario.
MaxIdsReuse == 3
\* Size of the operating system's process-id space.
MaxPid == 2
\* Number of NewContainer calls in one run with concurrent callers.
MaxIdsConc == 1

\* ------------------------------------------------------------- constants
\* The two values of ContainerInfo.Status.  The source's literals are the
\* Chinese words for "running" and "stopped"; the code only compares them.
StatusRunning == "Running"
StatusStopped == "Stopped"

\* containerId[:12] of the ids uuid.New() can return in this model
Prefixes == {"a1b2c3d4-e5f", "0f0f0f0f-0f0"}

\* A container id is <<its first 12 characters, the rest>>; the rest is
\* represented by the serial number of the generateContainerId call.
Ids == Prefixes \X (1..MaxIdsReuse)
NoId == <<"", 0>>

\* config.Name values a caller passes; "" is "no name given"
ReqNames == {"", "web", "a1b2c3d4-e5f"}

\* config.Network values a caller passes
NetModes == {"none", "bridge"}

Pids == 1..MaxPid
NoPid == 0

\* What wait4 can report for a terminated process.
WaitStatuses ==
    { [kind |-> "exited", code |-> 1],
      [kind |-> "signaled", code |-> 9] }
NoStatus == [kind |-> "none", code |-> 0]

\* process-table entry of a pid no process has (never used, or reaped)
NoProcess == [state |-> "none", ws |-> NoStatus]

\* Outcomes of prepareRootfs
RootfsOutcomes == {"ok", "mkdir_failed", "marker_failed"}

VARIABLES
    runningContainers,  \* registry: container id -> record
    issued,             \* number of ids generateContainerId has returned so far
    procs,              \* pid -> [state, ws] of the OS process table
    dirs,               \* ids whose directory exists under DefaultContainerRoot
    requested,          \* history: the config.Name values passed to NewContainer
    distinctReq,        \* history: no config.Name was passed to NewContainer twice
    pc,                 \* position of the caller
    last                \* the call in progress or last completed: its argument,
                        \* the name of the record RemoveContainer found, what it
                        \* returned, the signals it sent, what it printed

\* ListContainers and its caller
VARIABLES
    listResult,         \* the slice the last ListContainers call returned: the
                        \* pointers in it (a record object is identified by its id)
    listSeen,           \* history: the records as they were when it returned
    unlinked            \* record objects deleted from the map that listResult
                        \* still points to

\* concurrent callers of the package
VARIABLES
    callers             \* goroutine -> the call it is in: the function, its
                        \* position in it, its locals, what it sent and returned

\* package network
VARIABLES
    bridge,             \* the host's bridge device DefaultBridge: whether it
                        \* exists, has the gateway address, is up
    attach,             \* NewContainer call with a network -> its position
                        \* in SetupNetwork, what it ran and what it returned
    ospid,              \* os.Getpid() of the godocker process
    allocated           \* what the last allocateIP call returned

\* package resources
VARIABLES
    memoryLimit,        \* the string handed to parseMemoryLimit, as the
                        \* sequence of its characters
    parsed,             \* what parseMemoryLimit returned for it
    cgroups,            \* pid -> subsystem -> the files written under
                        \* <subsystem mount>/godocker-<pid>
    applied             \* the last call of ApplyResourceLimits

\* the init process of a container (InitContainer, run by `godocker init`)
VARIABLES
    command,            \* container.Command of the parent: the vector of
                        \* arguments, each the sequence of its characters
    environ,            \* the environment the init process finds
    init                \* the init process: its position in InitContainer,
                        \* what it has done, how it ended

registryVars == <<runningContainers, issued, procs, dirs, requested, distinctReq, pc, last>>
listVars == <<listResult, listSeen, unlinked>>

\* the state outside the registry and its caller
netVars == <<bridge, attach, ospid, allocated>>
parseVars == <<memoryLimit, parsed>>
resVars == <<cgroups, applied>>
bootVars == <<command, environ, init>>
extVars == <<listVars, callers, netVars, parseVars, resVars, bootVars>>

vars == <<registryVars, extVars>>

\* the value of `printed` when no exit code was printed
NothingPrinted == -2

NoCall ==
    [op |-> "none", id |-> NoId, name |-> "", result |-> "none",
     signals |-> <<>>, printed |-> NothingPrinted, warnings |-> {}]

\* no ListContainers call has returned yet
NoList == {NoId}

RegistryInit ==
    /\ runningContainers = <<>>
    /\ issued = 0
    /\ procs = [p \in Pids |-> NoProcess]
    /\ dirs = {}
    /\ requested = {}
    /\ distinctReq = TRUE
    /\ pc = "idle"
    /\ last = NoCall

ListInit ==
    /\ listResult = NoList
    /\ listSeen = <<>>
    /\ unlinked = <<>>

\* goroutines that call the package
Callers == {"g1", "g2"}

\* a goroutine that is in no call
NotCalling ==
    [op |-> "none", at |-> "idle", id |-> NoId, name |-> "", pid |-> NoPid,
     signals |-> <<>>, result |-> "none"]

CallersInit == callers = [g \in Callers |-> NotCalling]

\* network.BridgeMode, network.HostMode, and a mode SetupNetwork does not know
BridgeMode == "bridge"
HostMode == "host"
NoneMode == "none"
AttachModes == {BridgeMode, HostMode, "overlay"}

\* network.DefaultSubnet, DefaultGateway, DefaultIPPrefix
DefaultSubnet == "172.17.0.0/16"
DefaultGateway == "172.17.0.1"
DefaultIPPrefix == "172.17.0."

\* an address is <<its first three octets with their dots, the last octet>>
NoAddress == [prefix |-> "", octet |-> 0]

\* &NetworkConfig{} before any field is set
NoNetConfig ==
    [Mode |-> "", IPAddress |-> NoAddress, Gateway |-> "", Subnet |-> ""]

\* the NewContainer calls that ask for a network
Attachers == {"n1", "n2"}

NoBridge == [exists |-> FALSE, addr |-> FALSE, up |-> FALSE]

NotAttaching ==
    [at |-> "idle", id |-> NoId, pid |-> NoPid, sawBridge |-> "unknown",
     ran |-> <<>>, result |-> "none", cause |-> "none", warnings |-> {},
     netConfig |-> NoNetConfig, gotConfig |-> FALSE]

\* no call of allocateIP yet
NotAllocated == [called |-> FALSE, ip |-> NoAddress]

\* the godocker process has some pid; allocateIP is the only reader
AllocInit ==
    /\ ospid = 1
    /\ allocated = NotAllocated

BridgeInit ==
    /\ bridge = NoBridge
    /\ attach = [a \in Attachers |-> NotAttaching]

NetInit ==
    /\ BridgeInit
    /\ AllocInit

\* no call of parseMemoryLimit yet
NotParsed == [err |-> FALSE, neg |-> FALSE, mag |-> <<>>, called |-> FALSE]

ParseInit ==
    /\ memoryLimit = <<>>
    /\ parsed = NotParsed

\* the processes whose limits are applied
MaxPidRes == 1
ResPids == 1..MaxPidRes

\* the cgroup subsystems in the order ApplyResourceLimits goes through them
Dimensions == <<"memory", "cpuset", "cpu">>

NotApplied ==
    [called |-> FALSE, pid |-> NoPid,
     config |-> [MemoryLimit |-> <<>>, CpuSet |-> "", CpuShare |-> 0],
     ran |-> {}, result |-> "none", failed |-> "none"]

ResInit ==
    /\ cgroups = [p \in ResPids |-> [d \in {"memory", "cpuset", "cpu"} |-> {}]]
    /\ applied = NotApplied

\* an environment without CONTAINER_ROOTFS, CONTAINER_CMD, CONTAINER_NAME
\* (os.Getenv returns "" for a variable that is not set)
EmptyEnv == [CONTAINER_ROOTFS |-> "", CONTAINER_CMD |-> <<>>, CONTAINER_NAME |-> ""]

\* the init process when InitContainer is entered
InitEntered ==
    [at |-> "InitContainer", hostnameSet |-> FALSE, hostname |-> "",
     mounted |-> 0, root |-> "", cwd |-> "", cmdParts |-> <<>>,
     ran |-> <<>>, error |-> "none", exit |-> 0]

\* no init process is looked at
BootInit ==
    /\ command = <<>>
    /\ environ = EmptyEnv
    /\ init = InitEntered

Init ==
    /\ RegistryInit
    /\ ListInit
    /\ CallersInit
    /\ NetInit
    /\ ParseInit
    /\ ResInit
    /\ BootInit

\* ------------------------------------------------------------- helpers

\* containerId[:12]
IdPrefix(id) == id[1]

\* the ids handed out by the first n calls of generateContainerId, whatever
\* their leading characters were
IssuedIds(n) == {id \in Ids : id[2] <= n}

\* an id generator that hands out the ids of its first call again
generateContainerIdRepeat(n) == {id \in Ids : id[2] = 1}

\* generateContainerId after n earlier calls: uuid.New() returns an id never
\* returned before; its leading characters are arbitrary.
generateContainerId(n) == {id \in Ids : id[2] = n + 1}

\* a duplicate check that never finds a duplicate
NameTakenNever(reg, name) == FALSE

\* the loop `for _, c := range runningContainers { if c.Name == config.Name`
NameTaken(reg, name) == \E c \in DOMAIN reg : reg[c].Name = name

\* runningContainers[containerId] = container
Insert(reg, id, rec) == [c \in DOMAIN reg \cup {id} |-> IF c = id THEN rec ELSE reg[c]]

\* delete(runningContainers, containerId)
Delete(reg, id) == [c \in DOMAIN reg \ {id} |-> reg[c]]

\* container.Status = s, through the pointer held in the map
SetStatus(reg, id, s) == [reg EXCEPT ![id].Status = s]

\* pids the kernel may hand to a new process
FreePids == {p \in Pids : procs[p].state = "none"}

\* kill(2) can be accepted only for a process that exists (running or zombie)
CanDeliver(pid) == procs[pid].state \in {"alive", "zombie"}

\* the raw code of the wait status, whatever its kind
ExitCodeRaw(ws) == ws.code

\* state.ExitCode(): the exit code of an exited process, -1 for one killed by a signal
ExitCode(ws) == IF ws.kind = "exited" THEN ws.code ELSE -1

\* ------------------------------------------------------------- NewContainer

\* a record always named after its id
RecordNameDefault(cfgName, id) == IdPrefix(id)

\* the name the record gets
RecordName(cfgName, id) == IF cfgName # "" THEN cfgName ELSE IdPrefix(id)

\* the record saved before the process is known to have started
SaveRecordEarly(reg, id, rec, started) ==
    [c \in DOMAIN reg \cup {id} |-> IF c = id THEN rec ELSE reg[c]]

\* `if err != nil { return }` after startContainer, then
\* `runningContainers[containerId] = container`: the record is saved only
\* when the process started
SaveRecord(reg, id, rec, started) == IF started THEN Insert(reg, id, rec) ELSE reg

\* a failed resource or network step returned as the error of NewContainer
CreateReturnStrict(warnings) ==
    IF warnings = {} THEN "ok" ELSE "SetupError"

\* what NewContainer returns once the record is saved: failures of
\* ApplyResourceLimits and SetupNetwork are printed, `return containerId, nil`
CreateReturn(warnings) == "ok"

\* the warnings NewContainer prints after the record is saved
CreateWarnings(cfgNet, resErr, netErr) ==
    (IF resErr THEN {"ResourceLimitError"} ELSE {})
    \cup (IF cfgNet # "" /\ cfgNet # "none" /\ netErr
          THEN {"NetworkSetupError"} ELSE {})

\* NewContainer(config): id is what generateContainerId returns, rootfs the
\* outcome of prepareRootfs, pid the process cmd.Start() created (NoPid when
\* it failed), resErr / netErr whether ApplyResourceLimits / SetupNetwork fail.
NewContainer(cfgName, cfgNet, id, rootfs, pid, resErr, netErr) ==
    /\ pc = "idle"
    /\ id \in generateContainerId(issued)
    /\ issued' = issued + 1
    /\ pc' = pc
    /\ IF cfgName # "" /\ NameTaken(runningContainers, cfgName)
       THEN /\ last' = [NoCall EXCEPT !.op = "Create", !.result = "DuplicateName"]
            /\ UNCHANGED <<runningContainers, procs, dirs>>
       ELSE IF rootfs # "ok"
       THEN /\ dirs' = IF rootfs = "marker_failed" THEN dirs \cup {id} ELSE dirs
            /\ last' = [NoCall EXCEPT !.op = "Create",
                                      !.result = "RootfsPreparationError"]
            /\ UNCHANGED <<runningContainers, procs>>
       ELSE LET rec == [Name |-> RecordName(cfgName, id), Pid |-> pid,
                        Status |-> StatusRunning]
                warnings == CreateWarnings(cfgNet, resErr, netErr)
            IN
            /\ dirs' = dirs \cup {id}
            /\ runningContainers' = SaveRecord(runningContainers, id, rec, pid # NoPid)
            /\ IF pid = NoPid
               THEN /\ last' = [NoCall EXCEPT !.op = "Create",
                                              !.result = "ProcessStartError"]
                    /\ UNCHANGED procs
               ELSE /\ pid \in FreePids
                    /\ procs' = [procs EXCEPT ![pid] = [state |-> "alive",
                                                        ws |-> NoStatus]]
                    /\ last' = [NoCall EXCEPT
                                  !.op = "Create",
                                  !.id = IF CreateReturn(warnings) = "ok"
                                         THEN id ELSE NoId,
                                  !.result = CreateReturn(warnings),
                                  !.warnings = warnings]

\* The outcomes the steps of one NewContainer call can have together:
\* startContainer runs only after prepareRootfs succeeded, ApplyResourceLimits
\* and SetupNetwork only after startContainer succeeded, and SetupNetwork is
\* not called for the network mode "none".
StepOutcomes(cfgNet, rootfs, pid, resErr, netErr) ==
    /\ rootfs # "ok" => pid = NoPid
    /\ pid = NoPid => ~resErr /\ ~netErr
    /\ cfgNet = "none" => ~netErr

\* A caller calls NewContainer.
Create ==
    \E cfgName \in ReqNames, cfgNet \in NetModes, id \in Ids,
       rootfs \in RootfsOutcomes, pid \in Pids \cup {NoPid},
       resErr \in BOOLEAN, netErr \in BOOLEAN :
        /\ issued < MaxIds
        /\ StepOutcomes(cfgNet, rootfs, pid, resErr, netErr)
        /\ NewContainer(cfgName, cfgNet, id, rootfs, pid, resErr, netErr)
        /\ UNCHANGED <<requested, distinctReq>>
        /\ UNCHANGED extVars

\* Create, with the history of requested names recorded.
CreateReq ==
    \E cfgName \in ReqNames, cfgNet \in NetModes, id \in Ids,
       rootfs \in RootfsOutcomes, pid \in Pids \cup {NoPid},
       resErr \in BOOLEAN, netErr \in BOOLEAN :
        /\ issued < MaxIds
        /\ StepOutcomes(cfgNet, rootfs, pid, resErr, netErr)
        /\ NewContainer(cfgName, cfgNet, id, rootfs, pid, resErr, netErr)
        /\ distinctReq' = (distinctReq /\ cfgName \notin requested)
        /\ requested' = IF distinctReq' THEN requested \cup {cfgName} ELSE {}
        /\ UNCHANGED extVars

\* ------------------------------------------------------------- StopContainer

\* SIGKILL sent after SIGTERM whether or not SIGTERM was accepted
StopSignalsBoth(pid, termOk, killOk) ==
    << [sig |-> "SIGTERM", pid |-> pid, ok |-> termOk],
       [sig |-> "SIGKILL", pid |-> pid, ok |-> killOk] >>

\* The signals StopContainer sends to pid: SIGTERM, then SIGKILL (process.Kill)
\* only when sending SIGTERM returned an error.
StopSignals(pid, termOk, killOk) ==
    IF termOk
    THEN << [sig |-> "SIGTERM", pid |-> pid, ok |-> TRUE] >>
    ELSE << [sig |-> "SIGTERM", pid |-> pid, ok |-> FALSE],
            [sig |-> "SIGKILL", pid |-> pid, ok |-> killOk] >>

\* StopContainer without `container.Status = StatusStopped`
StopContainerNoMark(reg, id, termOk, killOk) ==
    IF id \notin DOMAIN reg
    THEN [reg |-> reg, signals |-> <<>>, err |-> "NotFound"]
    ELSE IF reg[id].Status = StatusStopped
    THEN [reg |-> reg, signals |-> <<>>, err |-> "ok"]
    ELSE [reg |-> reg, signals |-> StopSignals(reg[id].Pid, termOk, killOk),
          err |-> IF termOk \/ killOk THEN "ok" ELSE "KillFailed"]

\* StopContainer without the early return for a stopped container
StopContainerNoCheck(reg, id, termOk, killOk) ==
    IF id \notin DOMAIN reg
    THEN [reg |-> reg, signals |-> <<>>, err |-> "NotFound"]
    ELSE IF termOk \/ killOk
    THEN [reg |-> SetStatus(reg, id, StatusStopped),
          signals |-> StopSignals(reg[id].Pid, termOk, killOk), err |-> "ok"]
    ELSE [reg |-> reg,
          signals |-> StopSignals(reg[id].Pid, termOk, killOk), err |-> "KillFailed"]

\* StopContainer treating an unknown id like a stopped container
StopContainerAbsentOk(reg, id, termOk, killOk) ==
    IF id \notin DOMAIN reg \/ reg[id].Status = StatusStopped
    THEN [reg |-> reg, signals |-> <<>>, err |-> "ok"]
    ELSE IF termOk \/ killOk
    THEN [reg |-> SetStatus(reg, id, StatusStopped),
          signals |-> StopSignals(reg[id].Pid, termOk, killOk), err |-> "ok"]
    ELSE [reg |-> reg,
          signals |-> StopSignals(reg[id].Pid, termOk, killOk), err |-> "KillFailed"]

\* StopContainer(containerId) on registry reg: the registry afterwards, the
\* signals sent and the error returned ("ok" for nil).
StopContainer(reg, id, termOk, killOk) ==
    IF id \notin DOMAIN reg
    THEN [reg |-> reg, signals |-> <<>>, err |-> "NotFound"]
    ELSE IF reg[id].Status = StatusStopped
    THEN [reg |-> reg, signals |-> <<>>, err |-> "ok"]
    ELSE IF termOk \/ killOk
    THEN [reg |-> SetStatus(reg, id, StatusStopped),
          signals |-> StopSignals(reg[id].Pid, termOk, killOk), err |-> "ok"]
    ELSE [reg |-> reg,
          signals |-> StopSignals(reg[id].Pid, termOk, killOk), err |-> "KillFailed"]

\* The kernel accepts a signal only for an existing process; SIGKILL is only
\* attempted when SIGTERM was refused.
SignalChoice(id, termOk, killOk) ==
    /\ termOk => ~killOk
    /\ id \in DOMAIN runningContainers =>
          (termOk \/ killOk => CanDeliver(runningContainers[id].Pid))
    /\ id \notin DOMAIN runningContainers => ~termOk /\ ~killOk

Stop(id, termOk, killOk) ==
    /\ pc = "idle"
    /\ SignalChoice(id, termOk, killOk)
    /\ LET out == StopContainer(runningContainers, id, termOk, killOk) IN
        /\ runningContainers' = out.reg
        /\ last' = [NoCall EXCEPT !.op = "Stop", !.id = id, !.result = out.err,
                                  !.signals = out.signals]
    /\ UNCHANGED <<issued, procs, dirs, requested, distinctReq, pc>>

\* ------------------------------------------------------------- RemoveContainer

\* RemoveContainer up to and including the call of StopContainer.
RemoveStop(id, termOk, killOk) ==
    /\ pc = "idle"
    /\ SignalChoice(id, termOk, killOk)
    /\ IF id \notin DOMAIN runningContainers
       THEN /\ last' = [NoCall EXCEPT !.op = "Remove", !.id = id,
                                      !.result = "NotFound"]
            /\ UNCHANGED <<runningContainers, pc>>
       ELSE IF runningContainers[id].Status = StatusRunning
       THEN LET out == StopContainer(runningContainers, id, termOk, killOk) IN
            /\ runningContainers' = out.reg
            /\ last' = [NoCall EXCEPT
                          !.op = "Remove", !.id = id, !.signals = out.signals,
                          !.name = runningContainers[id].Name,
                          !.result = IF out.err = "ok" THEN "pending"
                                     ELSE "StopFailed"]
            /\ pc' = IF out.err = "ok" THEN "remove_cleanup" ELSE "idle"
       ELSE /\ ~termOk /\ ~killOk
            /\ last' = [NoCall EXCEPT !.op = "Remove", !.id = id,
                                      !.name = runningContainers[id].Name,
                                      !.result = "pending"]
            /\ pc' = "remove_cleanup"
            /\ UNCHANGED runningContainers
    /\ UNCHANGED <<issued, procs, dirs, requested, distinctReq>>

\* RemoveContainer returning the failure of os.RemoveAll and keeping the record
RemoveDeleteStrict(rmOk) ==
    /\ pc = "remove_cleanup"
    /\ dirs' = IF rmOk THEN dirs \ {last.id} ELSE dirs
    /\ runningContainers' = IF rmOk THEN Delete(runningContainers, last.id)
                            ELSE runningContainers
    /\ last' = [last EXCEPT !.result = IF rmOk THEN "ok" ELSE "CleanupError"]
    /\ pc' = "idle"
    /\ UNCHANGED <<issued, procs, requested, distinctReq>>

\* RemoveContainer from os.RemoveAll on: the directory is deleted unless
\* RemoveAll fails (a warning), the record is deleted in either case.
RemoveDelete(rmOk) ==
    /\ pc = "remove_cleanup"
    /\ dirs' = IF rmOk THEN dirs \ {last.id} ELSE dirs
    /\ runningContainers' = Delete(runningContainers, last.id)
    /\ last' = [last EXCEPT !.result = "ok",
                            !.warnings = IF rmOk THEN {} ELSE {"CleanupError"}]
    /\ pc' = "idle"
    /\ UNCHANGED <<issued, procs, requested, distinctReq>>

\* ------------------------------------------------------------- WaitContainer

\* WaitContainer up to the call of process.Wait().
WaitCall(id) ==
    /\ pc = "idle"
    /\ IF id \notin DOMAIN runningContainers
       THEN /\ last' = [NoCall EXCEPT !.op = "Wait", !.id = id,
                                      !.result = "NotFound"]
            /\ pc' = "idle"
       ELSE IF runningContainers[id].Status = StatusStopped
       THEN /\ last' = [NoCall EXCEPT !.op = "Wait", !.id = id, !.result = "ok"]
            /\ pc' = "idle"
       ELSE /\ last' = [NoCall EXCEPT !.op = "Wait", !.id = id,
                                      !.result = "pending"]
            /\ pc' = "wait_blocked"
    /\ UNCHANGED <<runningContainers, issued, procs, dirs, requested, distinctReq>>

\* process.Wait() returns: it blocks while the process runs, reaps a
\* terminated child, and fails when there is no such child to wait for.
WaitReturn ==
    /\ pc = "wait_blocked"
    /\ LET pid == runningContainers[last.id].Pid IN
        /\ procs[pid].state # "alive"
        /\ IF procs[pid].state = "zombie"
           THEN /\ procs' = [procs EXCEPT ![pid] = NoProcess]
                /\ runningContainers' =
                      SetStatus(runningContainers, last.id, StatusStopped)
                /\ last' = [last EXCEPT !.result = "ok",
                                        !.printed = ExitCode(procs[pid].ws)]
           ELSE /\ last' = [last EXCEPT !.result = "WaitFailed"]
                /\ UNCHANGED <<runningContainers, procs>>
    /\ pc' = "idle"
    /\ UNCHANGED <<issued, dirs, requested, distinctReq>>
    /\ UNCHANGED extVars

\* ------------------------------------------------------------- environment

\* The tracked process terminates (by itself or because of a signal).
ProcExit(p, ws) ==
    /\ procs[p].state = "alive"
    /\ procs' = [procs EXCEPT ![p] = [state |-> "zombie", ws |-> ws]]
    /\ UNCHANGED <<runningContainers, issued, dirs, requested, distinctReq, pc, last>>

Exit == \E p \in Pids, ws \in WaitStatuses : ProcExit(p, ws) /\ UNCHANGED extVars

\* ids a caller passes: an id in the registry, the id of the previous call
\* (possibly removed by it), or an id that was never handed out.  All ids
\* outside the registry are looked up with the same result.
CallIds == DOMAIN runningContainers \cup {last.id, NoId}

StopCall ==
    \E id \in CallIds, termOk \in BOOLEAN, killOk \in BOOLEAN :
        Stop(id, termOk, killOk) /\ UNCHANGED extVars

RemoveCall ==
    \E id \in CallIds, termOk \in BOOLEAN, killOk \in BOOLEAN :
        RemoveStop(id, termOk, killOk) /\ UNCHANGED extVars

RemoveFinish == \E rmOk \in BOOLEAN : RemoveDelete(rmOk) /\ UNCHANGED extVars

Wait == \E id \in CallIds : WaitCall(id) /\ UNCHANGED extVars

Next ==
    \/ Create
    \/ StopCall
    \/ RemoveCall
    \/ RemoveFinish
    \/ Wait
    \/ WaitReturn
    \/ Exit

Spec == Init /\ [][Next]_vars

\* The same program with the history of requested names.
NextReq ==
    \/ CreateReq
    \/ StopCall
    \/ RemoveCall
    \/ RemoveFinish
    \/ Wait
    \/ WaitReturn
    \/ Exit

SpecReq == Init /\ [][NextReq]_vars

\* The name-reuse scenario: the caller only creates (without network),
\* removes and waits, and every creation finds its rootfs and a free pid.
CreateReuse ==
    \E cfgName \in ReqNames, id \in Ids, pid \in Pids :
        /\ issued < MaxIdsReuse
        /\ NewContainer(cfgName, "none", id, "ok", pid, FALSE, FALSE)
        /\ UNCHANGED <<requested, distinctReq>>
        /\ UNCHANGED extVars

NextReuse ==
    \/ CreateReuse
    \/ RemoveCall
    \/ RemoveFinish
    \/ Wait
    \/ WaitReturn
    \/ Exit

SpecReuse == Init /\ [][NextReuse]_vars

\* ------------------------------------------------------------- ListContainers

\* ListContainers(): a new slice holding, for every entry of the map, the
\* pointer stored there.
ListContainers(reg) == DOMAIN reg

\* The record object a pointer of listResult points to: the object in the
\* map, or the object a RemoveContainer call deleted from the map.
ListObject(id) ==
    IF id \in DOMAIN runningContainers THEN runningContainers[id] ELSE unlinked[id]

\* What a caller reads through listResult now.
ListView == [id \in listResult |-> ListObject(id)]

\* A caller calls ListContainers and keeps the slice.
List ==
    /\ pc = "idle"
    /\ listResult' = ListContainers(runningContainers)
    /\ listSeen' = runningContainers
    /\ unlinked' = <<>>
    /\ last' = [NoCall EXCEPT !.op = "List", !.result = "ok"]
    /\ UNCHANGED <<runningContainers, issued, procs, dirs, requested, distinctReq, pc>>
    /\ UNCHANGED <<callers, netVars, parseVars, resVars, bootVars>>

\* RemoveContainer from os.RemoveAll on, while a slice returned by
\* ListContainers is held: delete() takes the pointer out of the map, the
\* object stays reachable through the slice.
RemoveFinishListed ==
    \E rmOk \in BOOLEAN :
        /\ RemoveDelete(rmOk)
        /\ unlinked' = IF last.id \in listResult
                       THEN [c \in DOMAIN unlinked \cup {last.id} |->
                               IF c = last.id THEN runningContainers[last.id]
                               ELSE unlinked[c]]
                       ELSE unlinked
        /\ UNCHANGED <<listResult, listSeen>>
        /\ UNCHANGED <<callers, netVars, parseVars, resVars, bootVars>>

\* NewContainer in the list scenario: every creation finds its rootfs and a
\* free pid, and no network is asked for.
CreateList ==
    \E cfgName \in ReqNames, id \in Ids, pid \in Pids :
        /\ issued < MaxIds
        /\ NewContainer(cfgName, "none", id, "ok", pid, FALSE, FALSE)
        /\ UNCHANGED <<requested, distinctReq>>
        /\ UNCHANGED extVars

NextList ==
    \/ CreateList
    \/ StopCall
    \/ RemoveCall
    \/ RemoveFinishListed
    \/ Wait
    \/ WaitReturn
    \/ Exit
    \/ List

SpecList == Init /\ [][NextList]_vars

\* ------------------------------------------------------------- concurrent callers
\* The functions of the package called from several goroutines.  The package
\* takes no lock, so the steps of different goroutines interleave freely; a
\* step is one access to the registry, or the system calls between two
\* accesses.  `at` is the statement a goroutine executes next.

\* what the concurrent steps leave alone
concFrame == <<requested, distinctReq, pc, last, listVars, netVars, parseVars, resVars, bootVars>>

\* goroutine g enters one of the functions
Enter(g, op, id, name) ==
    /\ callers[g].at = "idle"
    /\ callers' = [callers EXCEPT ![g] =
                      [NotCalling EXCEPT !.op = op, !.id = id, !.name = name,
                                         !.at = op, !.result = "pending"]]
    /\ UNCHANGED <<runningContainers, issued, procs, dirs>>
    /\ UNCHANGED concFrame

\* goroutine g returns result r
Return(g, r) == [NotCalling EXCEPT !.op = callers[g].op, !.result = r]

\* `container, exists := runningContainers[containerId]`, `if !exists`, and
\* the test of container.Status that follows it, in StopContainer (also when
\* called by RemoveContainer): the statement `at` names.
ConcStopLookup(g) ==
    /\ callers[g].at = "StopContainer"
    /\ LET id == callers[g].id IN
        callers' = [callers EXCEPT ![g] =
            IF id \notin DOMAIN runningContainers
            THEN Return(g, IF callers[g].op = "StopContainer"
                           THEN "NotFound" ELSE "StopFailed")
            ELSE IF runningContainers[id].Status = StatusStopped
            THEN IF callers[g].op = "StopContainer"
                 THEN Return(g, "ok")
                 ELSE [callers[g] EXCEPT !.at = "remove_delete"]
            ELSE [callers[g] EXCEPT !.at = "stop_signal",
                                    !.pid = runningContainers[id].Pid]]
    /\ UNCHANGED <<runningContainers, issued, procs, dirs>>
    /\ UNCHANGED concFrame

\* process.Signal(SIGTERM) and process.Kill() of StopContainer
ConcStopSignal(g, termOk, killOk) ==
    /\ callers[g].at = "stop_signal"
    /\ termOk => ~killOk
    /\ (termOk \/ killOk) => CanDeliver(callers[g].pid)
    /\ LET sent == [callers[g] EXCEPT
                       !.signals = StopSignals(callers[g].pid, termOk, killOk)]
       IN
       callers' = [callers EXCEPT ![g] =
            IF termOk \/ killOk
            THEN [sent EXCEPT !.at = "stop_mark"]
            ELSE Return(g, IF callers[g].op = "StopContainer"
                           THEN "KillFailed" ELSE "StopFailed")]
    /\ UNCHANGED <<runningContainers, issued, procs, dirs>>
    /\ UNCHANGED concFrame

\* `container.Status = StatusStopped` through the pointer the lookup returned;
\* the object may have been deleted from the map since.
MarkStopped(reg, id) ==
    IF id \in DOMAIN reg THEN SetStatus(reg, id, StatusStopped) ELSE reg

ConcStopMark(g) ==
    /\ callers[g].at = "stop_mark"
    /\ runningContainers' = MarkStopped(runningContainers, callers[g].id)
    /\ callers' = [callers EXCEPT ![g] =
            IF callers[g].op = "StopContainer"
            THEN Return(g, "ok")
            ELSE [callers[g] EXCEPT !.at = "remove_delete"]]
    /\ UNCHANGED <<issued, procs, dirs>>
    /\ UNCHANGED concFrame

\* the lookup of RemoveContainer and its test `container.Status == StatusRunning`
ConcRemoveLookup(g) ==
    /\ callers[g].at = "RemoveContainer"
    /\ LET id == callers[g].id IN
        callers' = [callers EXCEPT ![g] =
            IF id \notin DOMAIN runningContainers
            THEN Return(g, "NotFound")
            ELSE IF runningContainers[id].Status = StatusRunning
            THEN [callers[g] EXCEPT !.at = "StopContainer"]
            ELSE [callers[g] EXCEPT !.at = "remove_delete"]]
    /\ UNCHANGED <<runningContainers, issued, procs, dirs>>
    /\ UNCHANGED concFrame

\* os.RemoveAll and `delete(runningContainers, containerId)` of RemoveContainer
ConcRemoveDelete(g, rmOk) ==
    /\ callers[g].at = "remove_delete"
    /\ dirs' = IF rmOk THEN dirs \ {callers[g].id} ELSE dirs
    /\ runningContainers' = Delete(runningContainers, callers[g].id)
    /\ callers' = [callers EXCEPT ![g] = Return(g, "ok")]
    /\ UNCHANGED <<issued, procs>>
    /\ UNCHANGED concFrame

\* the lookup of WaitContainer and its test of container.Status
ConcWaitLookup(g) ==
    /\ callers[g].at = "WaitContainer"
    /\ LET id == callers[g].id IN
        callers' = [callers EXCEPT ![g] =
            IF id \notin DOMAIN runningContainers
            THEN Return(g, "NotFound")
            ELSE IF runningContainers[id].Status = StatusStopped
            THEN Return(g, "ok")
            ELSE [callers[g] EXCEPT !.at = "wait_blocked",
                                    !.pid = runningContainers[id].Pid]]
    /\ UNCHANGED <<runningContainers, issued, procs, dirs>>
    /\ UNCHANGED concFrame

\* process.Wait() of WaitContainer returns
ConcWaitReturn(g) ==
    /\ callers[g].at = "wait_blocked"
    /\ LET pid == callers[g].pid IN
        /\ procs[pid].state # "alive"
        /\ IF procs[pid].state = "zombie"
           THEN /\ procs' = [procs EXCEPT ![pid] = NoProcess]
                /\ callers' = [callers EXCEPT ![g].at = "wait_mark"]
           ELSE /\ callers' = [callers EXCEPT ![g] = Return(g, "WaitFailed")]
                /\ UNCHANGED procs
    /\ UNCHANGED <<runningContainers, issued, dirs>>
    /\ UNCHANGED concFrame

\* `container.Status = StatusStopped` of WaitContainer
ConcWaitMark(g) ==
    /\ callers[g].at = "wait_mark"
    /\ runningContainers' = MarkStopped(runningContainers, callers[g].id)
    /\ callers' = [callers EXCEPT ![g] = Return(g, "ok")]
    /\ UNCHANGED <<issued, procs, dirs>>
    /\ UNCHANGED concFrame

\* the loop of ListContainers over the map
ConcList(g) ==
    /\ callers[g].at = "ListContainers"
    /\ callers' = [callers EXCEPT ![g] = Return(g, "ok")]
    /\ UNCHANGED <<runningContainers, issued, procs, dirs>>
    /\ UNCHANGED concFrame

\* generateContainerId and the duplicate-name loop of NewContainer
ConcCreateCheck(g, id) ==
    /\ callers[g].at = "NewContainer"
    /\ id \in generateContainerId(issued)
    /\ issued' = issued + 1
    /\ LET cfgName == callers[g].name IN
        callers' = [callers EXCEPT ![g] =
            IF cfgName # "" /\ NameTaken(runningContainers, cfgName)
            THEN Return(g, "DuplicateName")
            ELSE [callers[g] EXCEPT !.at = "create_spawn", !.id = id,
                                    !.name = RecordName(cfgName, id)]]
    /\ UNCHANGED <<runningContainers, procs, dirs>>
    /\ UNCHANGED concFrame

\* prepareRootfs and startContainer of NewContainer (both succeed)
ConcCreateSpawn(g, pid) ==
    /\ callers[g].at = "create_spawn"
    /\ pid \in FreePids
    /\ procs' = [procs EXCEPT ![pid] = [state |-> "alive", ws |-> NoStatus]]
    /\ dirs' = dirs \cup {callers[g].id}
    /\ callers' = [callers EXCEPT ![g].at = "create_insert", ![g].pid = pid]
    /\ UNCHANGED <<runningContainers, issued>>
    /\ UNCHANGED concFrame

\* `runningContainers[containerId] = container` and the return of NewContainer
ConcCreateInsert(g) ==
    /\ callers[g].at = "create_insert"
    /\ runningContainers' =
          Insert(runningContainers, callers[g].id,
                 [Name |-> callers[g].name, Pid |-> callers[g].pid,
                  Status |-> StatusRunning])
    /\ callers' = [callers EXCEPT ![g] = Return(g, "ok")]
    /\ UNCHANGED <<issued, procs, dirs>>
    /\ UNCHANGED concFrame

\* statements that read the map
MapReads == {"StopContainer", "RemoveContainer", "WaitContainer",
             "ListContainers", "NewContainer"}

\* statements that write the map
MapWrites == {"create_insert", "remove_delete"}

\* statements that read the Status field of the record of the call's id
StatusReads == {"StopContainer", "RemoveContainer", "WaitContainer"}

\* statements that write the Status field of the record of the call's id
StatusWrites == {"stop_mark", "wait_mark"}

\* Two goroutines are about to access the registry, nothing orders the two
\* accesses, and one of them is a write: of the map itself, or of the Status
\* field of the same record.
Overlap(g, h) ==
    /\ g # h
    /\ \/ /\ callers[g].at \in MapWrites
           /\ callers[h].at \in MapReads \cup MapWrites
        \/ /\ callers[g].at \in StatusWrites
           /\ callers[h].at \in StatusReads \cup StatusWrites
           /\ callers[g].id = callers[h].id

\* The Go runtime may detect an unsynchronized map write that overlaps
\* another map access and abort the program ("concurrent map writes",
\* "concurrent map read and map write"); it need not.
MapFault ==
    /\ \E g, h \in Callers :
          /\ g # h
          /\ callers[g].at \in MapWrites
          /\ callers[h].at \in MapReads \cup MapWrites
    /\ callers' = [g \in Callers |-> [callers[g] EXCEPT !.at = "aborted"]]
    /\ UNCHANGED <<runningContainers, issued, procs, dirs>>
    /\ UNCHANGED concFrame

\* ids a goroutine passes
ConcIds == DOMAIN runningContainers \cup {NoId}

ConcEnter ==
    \E g \in Callers :
        \/ \E id \in ConcIds,
              op \in {"StopContainer", "RemoveContainer", "WaitContainer"} :
                Enter(g, op, id, "")
        \/ Enter(g, "ListContainers", NoId, "")
        \/ \E cfgName \in ReqNames :
                /\ issued + Cardinality({h \in Callers :
                                           callers[h].at = "NewContainer"})
                      < MaxIdsConc
                /\ Enter(g, "NewContainer", NoId, cfgName)

ConcStop ==
    \E g \in Callers :
        \/ ConcStopLookup(g)
        \/ \E termOk \in BOOLEAN, killOk \in BOOLEAN : ConcStopSignal(g, termOk, killOk)
        \/ ConcStopMark(g)

ConcRemove ==
    \E g \in Callers :
        \/ ConcRemoveLookup(g)
        \/ \E rmOk \in BOOLEAN : ConcRemoveDelete(g, rmOk)

ConcWait ==
    \E g \in Callers :
        \/ ConcWaitLookup(g)
        \/ ConcWaitReturn(g)
        \/ ConcWaitMark(g)

ConcListStep == \E g \in Callers : ConcList(g)

ConcCreate ==
    \E g \in Callers :
        \/ \E id \in Ids : ConcCreateCheck(g, id)
        \/ \E pid \in Pids : ConcCreateSpawn(g, pid)
        \/ ConcCreateInsert(g)

\* the tracked processes terminate
ConcExit ==
    \E p \in Pids, ws \in WaitStatuses :
        /\ ProcExit(p, ws)
        /\ UNCHANGED extVars

NextConc ==
    \/ ConcEnter
    \/ ConcStop
    \/ ConcRemove
    \/ ConcWait
    \/ ConcListStep
    \/ ConcCreate
    \/ ConcExit
    \/ MapFault

SpecConc == Init /\ [][NextConc]_vars

\* ------------------------------------------------------------- package network
\* SetupNetwork as NewContainer calls it, after the record is in the map.
\* Two calls share the host's bridge device; their steps interleave (the
\* calls may come from two goroutines or from two godocker processes).

\* what the steps of SetupNetwork leave alone
netFrame == <<registryVars, listVars, callers, parseVars, resVars, ospid, allocated, bootVars>>

\* the steps of the bridge mode before setupNAT, in the order of SetupNetwork
BeforeNat ==
    <<"setupBridge", "createVethPair", "setupContainerNetns", "connectVethToBridge">>

\* SetupNetwork returns an error from step `step`
AttachFail(a, step, cause) ==
    [attach[a] EXCEPT !.at = "returned", !.ran = Append(@, step),
                      !.result = "NetworkSetupError", !.cause = cause]

\* SetupNetwork goes on to `next` after step `step`
AttachStep(a, step, next) ==
    [attach[a] EXCEPT !.at = next, !.ran = Append(@, step)]

\* the address allocateIP returns without the `if lastOctet < 2`
allocateIPRaw(pid) == [prefix |-> DefaultIPPrefix, octet |-> pid % 254]

\* allocateIP in a process whose os.Getpid() is pid
allocateIP(pid) ==
    LET lastOctet == pid % 254
    IN  [prefix |-> DefaultIPPrefix,
         octet |-> IF lastOctet < 2 THEN 100 ELSE lastOctet]

\* a SetupNetwork that takes every mode but bridge as "no network"
SetupNetworkLenient(a, mode, id, pid) ==
    LET entered == [attach[a] EXCEPT !.id = id, !.pid = pid,
                                     !.netConfig = [NoNetConfig EXCEPT !.Mode = mode]]
    IN  IF mode = BridgeMode
        THEN [entered EXCEPT !.at = "setupBridge"]
        ELSE [entered EXCEPT !.at = "returned", !.result = "ok", !.gotConfig = TRUE]

\* SetupNetwork(netMode, containerID, pid) up to its first command: netConfig
\* is made with the mode, then the `switch netMode`; the host and none cases
\* print a line and return netConfig, the default case returns nil and an error
SetupNetwork(a, mode, id, pid) ==
    LET entered == [attach[a] EXCEPT !.id = id, !.pid = pid,
                                     !.netConfig = [NoNetConfig EXCEPT !.Mode = mode]]
    IN  IF mode = BridgeMode
        THEN [entered EXCEPT !.at = "setupBridge"]
        ELSE IF mode \in {HostMode, NoneMode}
        THEN [entered EXCEPT !.at = "returned", !.result = "ok", !.gotConfig = TRUE]
        ELSE [entered EXCEPT !.at = "returned", !.result = "NetworkSetupError",
                             !.cause = "UnsupportedMode"]

\* network.SetupNetwork called for a container of the registry by a caller
\* other than NewContainer (which never passes "" or "none")
AttachDirect(a, mode, id) ==
    /\ attach[a].at = "idle"
    /\ id \in DOMAIN runningContainers
    /\ attach' = [attach EXCEPT ![a] =
          SetupNetwork(a, mode, id, runningContainers[id].Pid)]
    /\ UNCHANGED bridge
    /\ UNCHANGED netFrame

\* NewContainer with config.Network = mode up to the call of SetupNetwork:
\* the record is in the map and the process runs (`last` already holds the
\* id the call is going to return); then the `switch netMode`.
AttachBegin(a, cfgName, mode, id, pid) ==
    /\ attach[a].at = "idle"
    /\ NewContainer(cfgName, mode, id, "ok", pid, FALSE, FALSE)
    /\ attach' = [attach EXCEPT ![a] =
          IF last'.result # "ok"
          THEN [attach[a] EXCEPT !.at = "returned", !.result = last'.result]
          ELSE SetupNetwork(a, mode, id, pid)]
    /\ UNCHANGED <<requested, distinctReq, listVars, callers, bridge, parseVars, resVars>>
    /\ UNCHANGED <<ospid, allocated, bootVars>>

\* setupBridge: `if exists, _ := deviceExists(DefaultBridge); exists`.  An
\* error of the lookup is dropped and reads as "absent".
SetupBridgeCheck(a, lookupOk) ==
    /\ attach[a].at = "setupBridge"
    /\ attach' = [attach EXCEPT ![a] =
          IF bridge.exists /\ lookupOk
          THEN [AttachStep(a, "setupBridge", "createVethPair")
                    EXCEPT !.sawBridge = "present"]
          ELSE [attach[a] EXCEPT !.at = "bridge_add", !.sawBridge = "absent"]]
    /\ UNCHANGED bridge
    /\ UNCHANGED netFrame

\* setupBridge: `ip link add name godocker0 type bridge`; the command fails
\* when the device exists
BridgeAdd(a, cmdOk) ==
    /\ attach[a].at = "bridge_add"
    /\ bridge.exists => ~cmdOk
    /\ IF cmdOk
       THEN /\ bridge' = [bridge EXCEPT !.exists = TRUE]
            /\ attach' = [attach EXCEPT ![a].at = "bridge_addr"]
       ELSE /\ attach' = [attach EXCEPT ![a] =
                  AttachFail(a, "setupBridge",
                             IF bridge.exists THEN "AlreadyExists"
                             ELSE "CommandFailed")]
            /\ UNCHANGED bridge
    /\ UNCHANGED netFrame

\* setupBridge: `ip addr add 172.17.0.1/16 dev godocker0`; the command fails
\* when the address is already there
BridgeAddr(a, cmdOk) ==
    /\ attach[a].at = "bridge_addr"
    /\ bridge.addr => ~cmdOk
    /\ IF cmdOk
       THEN /\ bridge' = [bridge EXCEPT !.addr = TRUE]
            /\ attach' = [attach EXCEPT ![a].at = "bridge_up"]
       ELSE /\ attach' = [attach EXCEPT ![a] =
                  AttachFail(a, "setupBridge",
                             IF bridge.addr THEN "AlreadyExists"
                             ELSE "CommandFailed")]
            /\ UNCHANGED bridge
    /\ UNCHANGED netFrame

\* setupBridge: `ip link set dev godocker0 up`, and the return of setupBridge
BridgeUp(a, cmdOk) ==
    /\ attach[a].at = "bridge_up"
    /\ IF cmdOk
       THEN /\ bridge' = [bridge EXCEPT !.up = TRUE]
            /\ attach' = [attach EXCEPT ![a] =
                  AttachStep(a, "setupBridge", "createVethPair")]
       ELSE /\ attach' = [attach EXCEPT ![a] =
                  AttachFail(a, "setupBridge", "CommandFailed")]
            /\ UNCHANGED bridge
    /\ UNCHANGED netFrame

\* createVethPair, setupContainerNetns or connectVethToBridge (step i of
\* BeforeNat, i > 1): the commands of the function succeed or one fails
VethStep(a, i, cmdOk) ==
    /\ attach[a].at = BeforeNat[i]
    /\ attach' = [attach EXCEPT ![a] =
          LET after == IF cmdOk
                       THEN AttachStep(a, BeforeNat[i],
                                       IF i < Len(BeforeNat) THEN BeforeNat[i + 1]
                                       ELSE "setupNAT")
                       ELSE AttachFail(a, BeforeNat[i], "CommandFailed")
          IN  IF BeforeNat[i] = "createVethPair"
              THEN [after EXCEPT !.netConfig.IPAddress = allocateIP(ospid),
                                 !.netConfig.Gateway = DefaultGateway,
                                 !.netConfig.Subnet = DefaultSubnet]
              ELSE after]
    /\ UNCHANGED bridge
    /\ UNCHANGED netFrame

\* a setupNAT that returns the failure of the iptables command
SetupNATStrict(a, sysctlOk, ruleOk) ==
    /\ attach[a].at = "setupNAT"
    /\ ~sysctlOk => ~ruleOk
    /\ attach' = [attach EXCEPT ![a] =
          IF sysctlOk /\ ruleOk
          THEN [AttachStep(a, "setupNAT", "returned") EXCEPT
                    !.result = "ok", !.gotConfig = TRUE]
          ELSE AttachFail(a, "setupNAT", "CommandFailed")]
    /\ UNCHANGED bridge
    /\ UNCHANGED netFrame

\* setupNAT and the return of SetupNetwork: a failure of `sysctl -w` is
\* returned, a failure of `iptables -A POSTROUTING ... MASQUERADE` is printed
SetupNAT(a, sysctlOk, ruleOk) ==
    /\ attach[a].at = "setupNAT"
    /\ ~sysctlOk => ~ruleOk
    /\ attach' = [attach EXCEPT ![a] =
          IF sysctlOk
          THEN [AttachStep(a, "setupNAT", "returned") EXCEPT
                    !.result = "ok", !.gotConfig = TRUE,
                    !.warnings = IF ruleOk THEN {} ELSE {"NatRuleWarning"}]
          ELSE AttachFail(a, "setupNAT", "CommandFailed")]
    /\ UNCHANGED bridge
    /\ UNCHANGED netFrame

NetBegin ==
    \E a \in Attachers, cfgName \in ReqNames, mode \in AttachModes,
       id \in Ids, pid \in Pids :
        AttachBegin(a, cfgName, mode, id, pid)

NetBridge ==
    \E a \in Attachers :
        \/ \E lookupOk \in BOOLEAN : SetupBridgeCheck(a, lookupOk)
        \/ \E cmdOk \in BOOLEAN : BridgeAdd(a, cmdOk)
        \/ \E cmdOk \in BOOLEAN : BridgeAddr(a, cmdOk)
        \/ \E cmdOk \in BOOLEAN : BridgeUp(a, cmdOk)

NetVeth ==
    \E a \in Attachers, i \in 2..Len(BeforeNat), cmdOk \in BOOLEAN :
        VethStep(a, i, cmdOk)

NetNat ==
    \E a \in Attachers, sysctlOk \in BOOLEAN, ruleOk \in BOOLEAN :
        SetupNAT(a, sysctlOk, ruleOk)

NextNet ==
    \/ NetBegin
    \/ NetBridge
    \/ NetVeth
    \/ NetNat

SpecNet == Init /\ [][NextNet]_vars

\* SetupNetwork with every mode
AllModes == AttachModes \cup {NoneMode, ""}

NetDirect ==
    \E a \in Attachers, mode \in AllModes, id \in Ids :
        AttachDirect(a, mode, id)

NextAttach ==
    \/ NetBegin
    \/ NetBridge
    \/ NetVeth
    \/ NetNat
    \/ NetDirect

SpecAttach == Init /\ [][NextAttach]_vars

\* allocateIP in godocker processes of every pid
MaxOsPid == 600

InitAlloc ==
    /\ RegistryInit
    /\ ListInit
    /\ CallersInit
    /\ BridgeInit
    /\ ParseInit
    /\ ResInit
    /\ BootInit
    /\ ospid \in 1..MaxOsPid
    /\ allocated = NotAllocated

Allocate ==
    /\ ~allocated.called
    /\ allocated' = [called |-> TRUE, ip |-> allocateIP(ospid)]
    /\ UNCHANGED <<ospid, bridge, attach, registryVars, listVars, callers,
                   parseVars, resVars, bootVars>>

NextAlloc == Allocate

SpecAlloc == InitAlloc /\ [][NextAlloc]_vars

\* ----------------------------------------------------------- package resources
\* parseMemoryLimit.  A string is the sequence of its characters.  An int64
\* is kept as sign and magnitude, the magnitude as NLimbs limbs of base
\* LimbBase, least significant first: 2^64 = 16 * LimbBase^6, so the top limb
\* of a 64-bit pattern is below 16 and a value is below 2^63 when it is
\* below 8.  The multipliers 1024, 1024*1024, 1024*1024*1024 shift by one,
\* two, three limbs.
LimbBase == 1024
NLimbs == 7

Digits == <<"0", "1", "2", "3", "4", "5", "6", "7", "8", "9">>

IsDigit(c) == \E d \in 1..Len(Digits) : Digits[d] = c

DigitValue(c) == (CHOOSE d \in 1..Len(Digits) : Digits[d] = c) - 1

\* strings.ToLower on the characters of the inputs
LowerChar(c) ==
    CASE c = "K" -> "k"
      [] c = "M" -> "m"
      [] c = "G" -> "g"
      [] c = "A" -> "a"
      [] OTHER -> c

ToLower(str) == [i \in 1..Len(str) |-> LowerChar(str[i])]

HasSuffix(str, c) == Len(str) > 0 /\ str[Len(str)] = c

TrimSuffix(str, c) ==
    IF HasSuffix(str, c) THEN SubSeq(str, 1, Len(str) - 1) ELSE str

Zero == [i \in 1..NLimbs |-> 0]

IsZero(L) == \A i \in 1..Len(L) : L[i] = 0

\* limbs i.. of L * m + c; the top limb keeps what is left
RECURSIVE MulAddFrom(_, _, _, _)
MulAddFrom(L, m, c, i) ==
    LET t == L[i] * m + c IN
    IF i = Len(L) THEN <<t>>
    ELSE <<t % LimbBase>> \o MulAddFrom(L, m, t \div LimbBase, i + 1)

MulAdd(L, m, c) == MulAddFrom(L, m, c, 1)

\* the number a string of decimal digits denotes
RECURSIVE Magnitude(_)
Magnitude(ds) ==
    IF ds = <<>> THEN Zero
    ELSE MulAdd(Magnitude(SubSeq(ds, 1, Len(ds) - 1)), 10, DigitValue(ds[Len(ds)]))

\* strconv.ParseInt(str, 10, 64): an optional sign, then one or more decimal
\* digits; a value outside -2^63 .. 2^63-1 is a range error
ParseInt(str) ==
    LET signed == Len(str) > 0 /\ str[1] \in {"+", "-"}
        neg == signed /\ str[1] = "-"
        ds == IF signed THEN Tail(str) ELSE str
        mag == Magnitude(ds)
        top == mag[NLimbs]
    IN  IF ds = <<>> \/ \E i \in 1..Len(ds) : ~IsDigit(ds[i])
        THEN [err |-> TRUE, neg |-> FALSE, mag |-> Zero]
        ELSE IF \/ top > 8
                \/ top = 8 /\ ~neg
                \/ top = 8 /\ ~IsZero(SubSeq(mag, 1, NLimbs - 1))
        THEN [err |-> TRUE, neg |-> FALSE, mag |-> Zero]
        ELSE [err |-> FALSE, neg |-> neg /\ ~IsZero(mag), mag |-> mag]

\* the 64-bit pattern of L * LimbBase^k: the limbs move up by k, what leaves
\* the 64 bits is lost
ShiftWrap(L, k) ==
    [i \in 1..NLimbs |->
        IF i <= k THEN 0
        ELSE IF i = NLimbs THEN L[i - k] % 16
        ELSE L[i - k]]

\* the 64-bit pattern of 2^64 - L
Negate64(L) ==
    LET inv == [i \in 1..NLimbs |->
                  IF i = NLimbs THEN 15 - L[i] ELSE (LimbBase - 1) - L[i]]
        inc == MulAdd(inv, 1, 1)
    IN  [inc EXCEPT ![NLimbs] = @ % 16]

\* the int64 a 64-bit pattern denotes
Signed64(U) ==
    IF U[NLimbs] >= 8
    THEN [neg |-> TRUE, mag |-> Negate64(U)]
    ELSE [neg |-> FALSE, mag |-> U]

\* `value * multiplier` in int64, multiplier = LimbBase^k
Multiply64(v, k) ==
    LET w == ShiftWrap(v.mag, k)
    IN  Signed64(IF v.neg THEN Negate64(w) ELSE w)

\* the `if ... else if ...` chain on the suffix: the number of limbs the
\* multiplier shifts by
SuffixShift(low) ==
    IF HasSuffix(low, "k") THEN 1
    ELSE IF HasSuffix(low, "m") THEN 2
    ELSE IF HasSuffix(low, "g") THEN 3
    ELSE 0

SuffixTrim(low) ==
    IF HasSuffix(low, "k") THEN TrimSuffix(low, "k")
    ELSE IF HasSuffix(low, "m") THEN TrimSuffix(low, "m")
    ELSE IF HasSuffix(low, "g") THEN TrimSuffix(low, "g")
    ELSE low

parseMemoryLimit(str) ==
    LET low == ToLower(str)
        value == ParseInt(SuffixTrim(low))
    IN  IF value.err
        THEN [err |-> TRUE, neg |-> FALSE, mag |-> Zero, called |-> TRUE]
        ELSE LET r == Multiply64(value, SuffixShift(low))
             IN  [err |-> FALSE, neg |-> r.neg, mag |-> r.mag, called |-> TRUE]

\* the inputs: every string of up to MaxLen characters of Alphabet, runs of
\* one digit up to MaxDigits long with or without a suffix, and the examples
MaxLen == 3
MaxDigits == 20

Alphabet == {"0", "1", "9", "k", "m", "g", "K", "M", "a", "-", "+"}

ShortInputs == UNION {[1..n -> Alphabet] : n \in 0..MaxLen}

RunInputs ==
    {[i \in 1..n |-> d] \o suf :
        n \in 1..MaxDigits, d \in {"1", "9"},
        suf \in {<<>>, <<"k">>, <<"m">>, <<"g">>}}

Examples ==
    {<<"1", "0", "0", "m">>, <<"1", "g">>, <<"5", "1", "2", "k">>,
     <<"2", "0", "4", "8">>, <<"a", "b", "c">>,
     <<"8", "5", "8", "9", "9", "3", "4", "5", "9", "2", "g">>,
     <<"8", "5", "8", "9", "9", "3", "4", "5", "9", "1", "g">>,
     <<"-", "8", "5", "8", "9", "9", "3", "4", "5", "9", "2", "g">>}

MemoryLimits == ShortInputs \cup RunInputs \cup Examples

InitParse ==
    /\ RegistryInit
    /\ ListInit
    /\ CallersInit
    /\ NetInit
    /\ ResInit
    /\ BootInit
    /\ memoryLimit \in MemoryLimits
    /\ parsed = NotParsed

Parse ==
    /\ ~parsed.called
    /\ parsed' = parseMemoryLimit(memoryLimit)
    /\ UNCHANGED <<memoryLimit, registryVars, listVars, callers, netVars, resVars, bootVars>>

NextParse == Parse

SpecParse == InitParse /\ [][NextParse]_vars

\* ApplyResourceLimits.  Each setup function is a sequence of file system
\* operations under the cgroup directory of the process; it returns at the
\* first one that fails.
\* setup functions that put the process into the group first
SetupStepsTasksFirst(d) ==
    CASE d = "memory" -> <<"mkdir", "tasks", "memory.limit_in_bytes", "memory.swappiness">>
      [] d = "cpuset" -> <<"mkdir", "tasks", "cpuset.cpus", "cpuset.mems">>
      [] d = "cpu" -> <<"mkdir", "tasks", "cpu.shares">>

SetupSteps(d) ==
    CASE d = "memory" -> <<"mkdir", "memory.limit_in_bytes", "memory.swappiness", "tasks">>
      [] d = "cpuset" -> <<"mkdir", "cpuset.cpus", "cpuset.mems", "tasks">>
      [] d = "cpu" -> <<"mkdir", "cpu.shares", "tasks">>

\* the conditions under which ApplyResourceLimits calls the setup functions
Present(config, d) ==
    CASE d = "memory" -> config.MemoryLimit # <<>>
      [] d = "cpuset" -> config.CpuSet # ""
      [] d = "cpu" -> config.CpuShare > 0

\* the setup function of d, when parseMemoryLimit returns (an error or not)
\* as in parseErr and the first done[d] of the file system operations
\* succeed: the files it writes, and whether it returns nil
SetupWrites(parseErr, d, done) ==
    IF d = "memory" /\ parseErr THEN {}
    ELSE {SetupSteps(d)[i] : i \in 1..done[d]}

SetupOk(parseErr, d, done) ==
    /\ d = "memory" => ~parseErr
    /\ done[d] = Len(SetupSteps(d))

\* the dimensions whose setup function is called: d is present, and every
\* present dimension before it returned nil
Runs(config, parseErr, done) ==
    {Dimensions[i] : i \in {j \in 1..Len(Dimensions) :
        /\ Present(config, Dimensions[j])
        /\ \A k \in 1..(j - 1) :
              Present(config, Dimensions[k]) => SetupOk(parseErr, Dimensions[k], done)}}

ApplyResourceLimits(pid, config, parseErr, done) ==
    LET ran == Runs(config, parseErr, done)
        bad == {d \in ran : ~SetupOk(parseErr, d, done)}
    IN  /\ \A d \in {"memory", "cpuset", "cpu"} \ ran : done[d] = 0
        /\ cgroups' = [cgroups EXCEPT ![pid] =
              [d \in {"memory", "cpuset", "cpu"} |->
                  IF d \in ran THEN @[d] \cup SetupWrites(parseErr, d, done)
                  ELSE @[d]]]
        /\ applied' = [called |-> TRUE, pid |-> pid, config |-> config,
                       ran |-> ran,
                       result |-> IF bad = {} THEN "ok" ELSE "ResourceLimitError",
                       failed |-> IF bad = {} THEN "none" ELSE CHOOSE d \in bad : TRUE]
        /\ UNCHANGED <<registryVars, listVars, callers, netVars, parseVars, bootVars>>

\* the resource configurations of the model
ResourceConfigs ==
    [MemoryLimit : {<<>>, <<"1", "m">>, <<"a">>},
     CpuSet : {"", "0"},
     CpuShare : {-1, 0, 512}]

\* how many file system operations of d may succeed: none of a dimension
\* that is not in the configuration
MayDo(config, d) == IF Present(config, d) THEN 0..Len(SetupSteps(d)) ELSE {0}

Apply ==
    \E pid \in ResPids, config \in ResourceConfigs :
        LET parseErr == parseMemoryLimit(config.MemoryLimit).err IN
        \E dm \in MayDo(config, "memory"), ds \in MayDo(config, "cpuset"),
           dc \in MayDo(config, "cpu") :
            ApplyResourceLimits(pid, config, parseErr,
                                [memory |-> dm, cpuset |-> ds, cpu |-> dc])

NextRes == Apply

SpecRes == Init /\ [][NextRes]_vars

\* ------------------------------------------------------------ InitContainer
\* The init process: `godocker init`, started by startContainer with the
\* environment it writes, or by hand.  Every system call of InitContainer
\* succeeds or fails; runInit turns a returned error into os.Exit(1).

\* strings.Join(v, " ")
RECURSIVE Join(_)
Join(v) ==
    IF v = <<>> THEN <<>>
    ELSE IF Len(v) = 1 THEN v[1]
    ELSE v[1] \o <<" ">> \o Join(Tail(v))

HasSpace(str) == \E i \in 1..Len(str) : str[i] = " "

FirstSpace(str) ==
    CHOOSE i \in 1..Len(str) : str[i] = " " /\ \A j \in 1..(i - 1) : str[j] # " "

\* a split that drops empty parts, as strings.Fields does
RECURSIVE SplitFields(_)
SplitFields(str) ==
    IF ~HasSpace(str) THEN (IF str = <<>> THEN <<>> ELSE <<str>>)
    ELSE (IF FirstSpace(str) = 1 THEN <<>>
          ELSE <<SubSeq(str, 1, FirstSpace(str) - 1)>>)
         \o SplitFields(SubSeq(str, FirstSpace(str) + 1, Len(str)))

\* strings.Split(str, " "): a part before every space, and the rest
RECURSIVE Split(_)
Split(str) ==
    IF ~HasSpace(str) THEN <<str>>
    ELSE <<SubSeq(str, 1, FirstSpace(str) - 1)>>
         \o Split(SubSeq(str, FirstSpace(str) + 1, Len(str)))

\* cmd.Env of startContainer, as far as InitContainer reads it
startContainerEnv(cmd, name, rootfs) ==
    [CONTAINER_ROOTFS |-> rootfs, CONTAINER_CMD |-> Join(cmd), CONTAINER_NAME |-> name]

\* what setupContainerMounts does, in its order
MountSteps ==
    <<"MkdirAll", "proc", "sysfs", "tmpfs", "MkdirAll /dev/pts", "devpts", "Mknod /dev/null">>

\* what the steps of InitContainer leave alone
bootFrame == <<registryVars, listVars, callers, netVars, parseVars, resVars, command, environ>>

\* InitContainer returns an error from `step`, runInit exits with 1
InitFail(step, err) ==
    [init EXCEPT !.at = "exited", !.error = err, !.exit = 1]

\* a test of the environment that does not look at CONTAINER_CMD
MissingConfigurationRootfsOnly(env) == env.CONTAINER_ROOTFS = ""

\* `if rootfs == "" || cmdString == ""`
MissingConfiguration(env) == env.CONTAINER_ROOTFS = "" \/ env.CONTAINER_CMD = <<>>

\* os.Getenv of the three variables and the test of rootfs and cmdString
InitCheck ==
    /\ init.at = "InitContainer"
    /\ init' = IF MissingConfiguration(environ)
               THEN InitFail("InitContainer", "MissingConfiguration")
               ELSE [init EXCEPT !.at = "setHostname"]
    /\ UNCHANGED bootFrame

\* setHostname(containerName)
SetHostname(ok) ==
    /\ init.at = "setHostname"
    /\ init' = IF ok
               THEN [init EXCEPT !.at = "setupContainerMounts",
                                 !.ran = Append(@, "setHostname"),
                                 !.hostnameSet = TRUE,
                                 !.hostname = environ.CONTAINER_NAME]
               ELSE [InitFail("setHostname", "HostnameError")
                        EXCEPT !.ran = Append(@, "setHostname")]
    /\ UNCHANGED bootFrame

\* a setupContainerMounts that goes on after a failure
MountPassesAlways(step, outcome) == TRUE

\* whether a step of setupContainerMounts goes on: Mknod may find /dev/null
\* (`err != nil && !os.IsExist(err)`)
MountPasses(step, outcome) ==
    outcome = "ok" \/ (step = "Mknod /dev/null" /\ outcome = "exists")

\* the next step of setupContainerMounts(rootfs); after the last one
\* setupContainerMounts returns nil
MountStep(outcome) ==
    /\ init.at = "setupContainerMounts"
    /\ LET i == init.mounted + 1
           called == IF i = 1 THEN Append(init.ran, "setupContainerMounts")
                     ELSE init.ran
       IN  /\ outcome = "exists" => MountSteps[i] = "Mknod /dev/null"
           /\ init' = IF MountPasses(MountSteps[i], outcome)
                      THEN [init EXCEPT
                              !.ran = called,
                              !.mounted = IF outcome = "failed" THEN @ ELSE i,
                              !.at = IF i = Len(MountSteps) THEN "Chroot" ELSE @]
                      ELSE [InitFail("setupContainerMounts", "MountError")
                               EXCEPT !.ran = called]
    /\ UNCHANGED bootFrame

\* syscall.Chroot(rootfs)
Chroot(ok) ==
    /\ init.at = "Chroot"
    /\ init' = IF ok
               THEN [init EXCEPT !.at = "Chdir", !.ran = Append(@, "Chroot"),
                                 !.root = environ.CONTAINER_ROOTFS]
               ELSE [InitFail("Chroot", "ChrootError")
                        EXCEPT !.ran = Append(@, "Chroot")]
    /\ UNCHANGED bootFrame

\* os.Chdir("/")
Chdir(ok) ==
    /\ init.at = "Chdir"
    /\ init' = IF ok
               THEN [init EXCEPT !.at = "LookPath", !.ran = Append(@, "Chdir"),
                                 !.cwd = "/"]
               ELSE [InitFail("Chdir", "ChdirError")
                        EXCEPT !.ran = Append(@, "Chdir")]
    /\ UNCHANGED bootFrame

\* strings.Split(cmdString, " ") and exec.LookPath(cmdParts[0])
LookPath(ok) ==
    /\ init.at = "LookPath"
    /\ LET cmdParts == Split(environ.CONTAINER_CMD) IN
       init' = IF ok
               THEN [init EXCEPT !.at = "Exec", !.cmdParts = cmdParts]
               ELSE [InitFail("LookPath", "ExecFailure")
                        EXCEPT !.cmdParts = cmdParts]
    /\ UNCHANGED bootFrame

\* syscall.Exec(cmdPath, cmdParts, os.Environ()): the process goes on as the
\* command, or Exec returns an error
Exec(ok) ==
    /\ init.at = "Exec"
    /\ init' = IF ok
               THEN [init EXCEPT !.at = "execed", !.ran = Append(@, "Exec")]
               ELSE [InitFail("Exec", "ExecFailure")
                        EXCEPT !.ran = Append(@, "Exec")]
    /\ UNCHANGED bootFrame

\* the command vectors of the model: up to MaxArgs arguments of up to
\* MaxArgLen characters
MaxArgs == 2
MaxArgLen == 2

ArgAlphabet == {"s", "h", " "}

Args == UNION {[1..n -> ArgAlphabet] : n \in 0..MaxArgLen}

Commands == UNION {[1..n -> Args] : n \in 0..MaxArgs}

\* container.Name and the rootfs path startContainer hands over
BootNames == {"web", "a1b2c3d4-e5f"}
BootRootfs == "/var/lib/godocker/containers/a1b2c3d4-e5f-1"

\* the environments of an init process: written by startContainer for a
\* command, or that of `godocker init` run by hand, where variables can be
\* missing
Environments(cmd) ==
    {startContainerEnv(cmd, name, BootRootfs) : name \in BootNames}
    \cup {EmptyEnv,
          [EmptyEnv EXCEPT !.CONTAINER_CMD = Join(cmd)],
          [EmptyEnv EXCEPT !.CONTAINER_ROOTFS = BootRootfs]}

InitBoot ==
    /\ RegistryInit
    /\ ListInit
    /\ CallersInit
    /\ NetInit
    /\ ParseInit
    /\ ResInit
    /\ command \in Commands
    /\ environ \in Environments(command)
    /\ init = InitEntered

NextBoot ==
    \/ InitCheck
    \/ \E ok \in BOOLEAN : SetHostname(ok)
    \/ \E outcome \in {"ok", "exists", "failed"} : MountStep(outcome)
    \/ \E ok \in BOOLEAN : Chroot(ok)
    \/ \E ok \in BOOLEAN : Chdir(ok)
    \/ \E ok \in BOOLEAN : LookPath(ok)
    \/ \E ok \in BOOLEAN : Exec(ok)

SpecBoot == InitBoot /\ [][NextBoot]_vars

\* ================================================================ claims

\* some record in the registry carries this name
Taken(name) ==
    \E c \in DOMAIN runningContainers : runningContainers[c].Name = name

CreateErrors == {"RootfsPreparationError", "ProcessStartError"}

\* C1 (as amended): a NewContainer call with a non-empty name that some
\* record in the registry carries (as requested or as default name) returns
\* DuplicateName and leaves the registry unchanged; every other call, with an
\* empty name or a name no record carries, succeeds and saves its record when
\* prepareRootfs and startContainer succeed.
C1_DuplicateRejectedElseSucceeds ==
    [][issued' = issued + 1 =>
        \A cfgName \in ReqNames, cfgNet \in NetModes,
           id \in generateContainerId(issued),
           rootfs \in RootfsOutcomes, pid \in Pids \cup {NoPid},
           resErr \in BOOLEAN, netErr \in BOOLEAN :
            ( /\ StepOutcomes(cfgNet, rootfs, pid, resErr, netErr)
              /\ NewContainer(cfgName, cfgNet, id, rootfs, pid, resErr, netErr) ) =>
                IF cfgName # "" /\ Taken(cfgName)
                THEN /\ last'.result = "DuplicateName"
                     /\ runningContainers' = runningContainers
                ELSE (rootfs = "ok" /\ pid # NoPid) =>
                        /\ last'.result = "ok"
                        /\ id \in DOMAIN runningContainers'
                        /\ id \notin DOMAIN runningContainers]_vars

\* C1 witness: a NewContainer call was rejected for a duplicate name while a
\* record was in the registry.
C1_Witness ==
    /\ last.op = "Create"
    /\ last.result = "DuplicateName"
    /\ runningContainers # <<>>

\* C1 as stated: while the names requested so far are pairwise distinct, a
\* NewContainer call whose rootfs preparation and spawn succeed succeeds.
C1_DistinctRequestsAllSucceed ==
    (last.op = "Create" /\ distinctReq /\ last.result \notin CreateErrors)
        => last.result = "ok"

\* C2 as stated: no two records in the registry carry the same name.
C2_UniqueNames ==
    \A a, b \in DOMAIN runningContainers :
        a # b => runningContainers[a].Name # runningContainers[b].Name

\* C3: a NewContainer call that gets past the name check and whose
\* prepareRootfs or startContainer fails returns that error, and the registry
\* holds exactly the records it held before.
C3_FailedCreateLeavesRegistry ==
    [][issued' = issued + 1 =>
        \A cfgName \in ReqNames, cfgNet \in NetModes,
           id \in generateContainerId(issued),
           rootfs \in RootfsOutcomes, pid \in Pids \cup {NoPid},
           resErr \in BOOLEAN, netErr \in BOOLEAN :
            ( /\ StepOutcomes(cfgNet, rootfs, pid, resErr, netErr)
              /\ ~(cfgName # "" /\ Taken(cfgName))
              /\ (rootfs # "ok" \/ pid = NoPid)
              /\ NewContainer(cfgName, cfgNet, id, rootfs, pid, resErr, netErr) ) =>
                /\ last'.result =
                      (IF rootfs # "ok" THEN "RootfsPreparationError"
                       ELSE "ProcessStartError")
                /\ last'.id = NoId
                /\ runningContainers' = runningContainers]_vars

\* C3 witness: the spawn failed while the registry held a record.
C3_Witness ==
    /\ last.op = "Create"
    /\ last.result = "ProcessStartError"
    /\ runningContainers # <<>>

\* C4: when startContainer succeeds, NewContainer returns the new id and the
\* registry holds for it a Running record with the spawned pid, whether or
\* not ApplyResourceLimits or SetupNetwork failed; the other records are as
\* before.
C4_SpawnedMeansCreated ==
    [][issued' = issued + 1 =>
        \A cfgName \in ReqNames, cfgNet \in NetModes,
           id \in generateContainerId(issued),
           rootfs \in RootfsOutcomes, pid \in Pids,
           resErr \in BOOLEAN, netErr \in BOOLEAN :
            ( /\ StepOutcomes(cfgNet, rootfs, pid, resErr, netErr)
              /\ ~(cfgName # "" /\ Taken(cfgName))
              /\ rootfs = "ok"
              /\ NewContainer(cfgName, cfgNet, id, rootfs, pid, resErr, netErr) ) =>
                /\ last'.result = "ok"
                /\ last'.id = id
                /\ DOMAIN runningContainers' = DOMAIN runningContainers \cup {id}
                /\ runningContainers'[id].Status = StatusRunning
                /\ runningContainers'[id].Pid = pid
                /\ procs'[pid].state = "alive"
                /\ \A c \in DOMAIN runningContainers :
                      runningContainers'[c] = runningContainers[c]]_vars

\* C4 witness: NewContainer returned an id although both the resource step
\* and the network step failed, and the record is Running.
C4_Witness ==
    /\ last.op = "Create"
    /\ last.result = "ok"
    /\ last.warnings = {"ResourceLimitError", "NetworkSetupError"}
    /\ last.id \in DOMAIN runningContainers
    /\ runningContainers[last.id].Status = StatusRunning

\* C5: a record leaves the registry only in a step that starts with its
\* status Stopped, and RemoveContainer reaches os.RemoveAll only with the
\* record Stopped.
C5_RemovedOnlyWhenStopped ==
    [][ /\ \A id \in DOMAIN runningContainers :
              id \notin DOMAIN runningContainers' =>
                  runningContainers[id].Status = StatusStopped
        /\ pc' = "remove_cleanup" =>
              runningContainers'[last'.id].Status = StatusStopped ]_vars

\* C5 witness: RemoveContainer was called on a Running container (it sent a
\* signal) and has deleted the record.
C5_Witness ==
    /\ last.op = "Remove"
    /\ last.result = "ok"
    /\ last.signals # <<>>
    /\ last.id \notin DOMAIN runningContainers

\* C6: StopContainer on a record whose status is Stopped returns nil, sends
\* no signal and changes neither the registry nor any process.
C6_StopOnStoppedIsNoop ==
    [][\A id \in DOMAIN runningContainers, termOk \in BOOLEAN, killOk \in BOOLEAN :
          (runningContainers[id].Status = StatusStopped /\ Stop(id, termOk, killOk)) =>
              /\ last'.result = "ok"
              /\ last'.signals = <<>>
              /\ runningContainers' = runningContainers
              /\ procs' = procs]_vars

\* C6 witness: StopContainer returned nil without a signal for a record in
\* the registry.
C6_Witness ==
    /\ last.op = "Stop"
    /\ last.result = "ok"
    /\ last.signals = <<>>
    /\ last.id \in DOMAIN runningContainers

\* C7: StopContainer on a Running record sends SIGTERM first and SIGKILL
\* only when SIGTERM was refused; the status becomes Stopped, and nil is
\* returned, exactly when one of the two was accepted; when both are refused
\* an error is returned and the registry is unchanged.  The process table is
\* not touched: the call does not wait for the process to exit.
C7_StopSignalOrder ==
    [][\A id \in DOMAIN runningContainers, termOk \in BOOLEAN, killOk \in BOOLEAN :
          (runningContainers[id].Status = StatusRunning /\ Stop(id, termOk, killOk)) =>
              LET sg == last'.signals
                  pid == runningContainers[id].Pid
                  accepted == \E i \in 1..Len(sg) : sg[i].ok
              IN
              /\ Len(sg) \in {1, 2}
              /\ sg[1] = [sig |-> "SIGTERM", pid |-> pid, ok |-> termOk]
              /\ (Len(sg) = 2) = (~termOk)
              /\ Len(sg) = 2 => sg[2] = [sig |-> "SIGKILL", pid |-> pid, ok |-> killOk]
              /\ (runningContainers'[id].Status = StatusStopped) = accepted
              /\ (last'.result = "ok") = accepted
              /\ ~accepted => runningContainers' = runningContainers
              /\ procs' = procs]_vars

\* C7 witness: SIGTERM was refused, SIGKILL accepted, the record is Stopped
\* and the process has not yet terminated.
C7_Witness ==
    /\ last.op = "Stop"
    /\ last.result = "ok"
    /\ Len(last.signals) = 2
    /\ last.id \in DOMAIN runningContainers
    /\ runningContainers[last.id].Status = StatusStopped
    /\ procs[runningContainers[last.id].Pid].state = "alive"

C9_UnknownIdNotFound ==
    [][\A id \in Ids \cup {NoId}, termOk \in BOOLEAN, killOk \in BOOLEAN :
          ( /\ id \notin DOMAIN runningContainers
            /\ \/ Stop(id, termOk, killOk)
               \/ RemoveStop(id, termOk, killOk)
               \/ WaitCall(id) ) =>
              /\ last'.result = "NotFound"
              /\ last'.signals = <<>>
              /\ pc' = "idle"
              /\ UNCHANGED <<runningContainers, procs, dirs, issued>>]_vars

\* C9 witness: RemoveContainer returned NotFound for an id that an earlier
\* RemoveContainer had removed (ids outside the registry other than NoId are
\* passed only as the id of the previous call).
C9_Witness ==
    /\ last.op = "Remove"
    /\ last.result = "NotFound"
    /\ last.id # NoId
    /\ last.id \notin DOMAIN runningContainers

\* C10 as stated: after RemoveContainer succeeds the record is gone, and the
\* NewContainer call that follows it and requests the removed record's name
\* succeeds (when prepareRootfs and startContainer succeed) with an id that
\* was never handed out before.
C10_RemovedNameReusable ==
    [][ /\ (pc = "remove_cleanup" /\ pc' = "idle") =>
              last.id \notin DOMAIN runningContainers'
        /\ (last.op = "Remove" /\ last.result = "ok" /\ issued' = issued + 1) =>
              \A cfgNet \in NetModes, id \in generateContainerId(issued),
                 pid \in Pids,
                 resErr \in BOOLEAN, netErr \in BOOLEAN :
                  ( /\ StepOutcomes(cfgNet, "ok", pid, resErr, netErr)
                    /\ NewContainer(last.name, cfgNet, id, "ok", pid, resErr, netErr) ) =>
                      /\ last'.result = "ok"
                      /\ last'.id = id
                      /\ id \notin IssuedIds(issued) ]_vars

C17_OneRecordPerLiveProcess ==
    \A p \in Pids :
        procs[p].state = "alive" =>
            Cardinality({c \in DOMAIN runningContainers :
                            runningContainers[c].Pid = p}) = 1

\* C18: when the StopContainer call of RemoveContainer on a Running record
\* fails, RemoveContainer returns that failure and the registry and the
\* directories are as before (the record still Running); once the record is
\* Stopped, RemoveContainer deletes the record and returns nil whether or not
\* os.RemoveAll failed, and a failed os.RemoveAll only leaves a warning and
\* the directory.
C18_RemoveFailureHandling ==
    [][ /\ \A id \in DOMAIN runningContainers, termOk \in BOOLEAN, killOk \in BOOLEAN :
              ( /\ runningContainers[id].Status = StatusRunning
                /\ ~termOk /\ ~killOk
                /\ RemoveStop(id, termOk, killOk) ) =>
                  /\ last'.result = "StopFailed"
                  /\ pc' = "idle"
                  /\ runningContainers' = runningContainers
                  /\ runningContainers'[id].Status = StatusRunning
                  /\ dirs' = dirs
        /\ pc = "remove_cleanup" =>
              \A rmOk \in BOOLEAN :
                  RemoveDelete(rmOk) =>
                      /\ last'.result = "ok"
                      /\ pc' = "idle"
                      /\ runningContainers' = Delete(runningContainers, last.id)
                      /\ last.id \notin DOMAIN runningContainers'
                      /\ rmOk => last.id \notin dirs' /\ last'.warnings = {}
                      /\ ~rmOk => dirs' = dirs /\ last'.warnings = {"CleanupError"} ]_vars

\* C18 witness: RemoveContainer stopped a Running container (it sent a
\* signal), os.RemoveAll failed, and the call returned nil with the record
\* gone and the directory still there.
C18_Witness ==
    /\ last.op = "Remove"
    /\ last.result = "ok"
    /\ last.signals # <<>>
    /\ last.warnings = {"CleanupError"}
    /\ last.id \in dirs
    /\ last.id \notin DOMAIN runningContainers

\* C12 as stated: what a caller sees through the value ListContainers
\* returned (the records in it and their field values) is what it was when
\* ListContainers returned, whatever ran since.
C12_ListIsSnapshot ==
    listResult # NoList =>
        /\ listResult = DOMAIN listSeen
        /\ ListView = listSeen

\* C13 as stated: no two goroutines are at registry accesses that nothing
\* orders and of which one is a write (with one exclusive lock around every
\* access, a goroutine at an access holds the lock and no other is at one).
C13_NoOverlappingAccess ==
    \A g, h \in Callers : ~Overlap(g, h)

\* C14 as stated: of a StopContainer call and a RemoveContainer call that
\* two goroutines make on the same id, at most one is past the status check
\* and has sent signals to the process; the other finds the record Stopped
\* or gone and sends nothing.
C14_StopRemoveSerialized ==
    \A g, h \in Callers :
        ( /\ callers[g].op = "StopContainer"
          /\ callers[h].op = "RemoveContainer"
          /\ callers[g].id = callers[h].id ) =>
            (callers[g].signals = <<>> \/ callers[h].signals = <<>>)

\* C15 as stated: when both SetupNetwork calls found the bridge absent,
\* neither fails because the other created it first.
C15_BridgeRaceTolerated ==
    (\A a \in Attachers : attach[a].sawBridge = "absent") =>
        \A a \in Attachers :
            ~(attach[a].result = "NetworkSetupError" /\ attach[a].cause = "AlreadyExists")

\* C20: in SetupNetwork's bridge mode a failing step before setupNAT returns
\* NetworkSetupError and the call runs nothing after it; in setupNAT a
\* failing iptables command leaves a warning and the call returns ok; no step
\* of SetupNetwork changes the record or signals the process.
C20_AttachErrorHandling ==
    [][\A a \in Attachers :
        /\ \A cmdOk \in BOOLEAN :
              (\/ BridgeAdd(a, cmdOk) \/ BridgeAddr(a, cmdOk) \/ BridgeUp(a, cmdOk)
               \/ \E i \in 2..Len(BeforeNat) : VethStep(a, i, cmdOk))
              /\ ~cmdOk
              => /\ attach'[a].at = "returned"
                 /\ attach'[a].result = "NetworkSetupError"
                 /\ \A k \in 1..Len(attach'[a].ran) : attach'[a].ran[k] # "setupNAT"
        /\ \A sysctlOk \in BOOLEAN :
              SetupNAT(a, sysctlOk, FALSE) /\ sysctlOk
              => /\ attach'[a].at = "returned"
                 /\ attach'[a].result = "ok"
                 /\ attach'[a].warnings = {"NatRuleWarning"}
        /\ attach[a].at = "returned" => attach'[a] = attach[a]
        /\ attach[a].at \notin {"idle", "returned"} /\ attach'[a] # attach[a]
              => /\ runningContainers' = runningContainers
                 /\ procs' = procs
                 /\ attach[a].id \in DOMAIN runningContainers
                 /\ runningContainers[attach[a].id].Status = StatusRunning
                 /\ runningContainers[attach[a].id].Pid = attach[a].pid
                 /\ procs[attach[a].pid].state = "alive"
                 /\ LET n == Len(attach[a].ran) IN
                      /\ Len(attach'[a].ran) <= n + 1
                      /\ SubSeq(attach'[a].ran, 1, n) = attach[a].ran
                      /\ \A k \in 1..Len(attach'[a].ran) :
                            attach'[a].ran[k] = (BeforeNat \o <<"setupNAT">>)[k]
      ]_vars

\* one call returned NetworkSetupError from createVethPair, the other
\* returned ok with the warning of setupNAT
C20_Witness ==
    \E a, b \in Attachers :
        /\ attach[a].result = "NetworkSetupError"
        /\ attach[a].ran = <<"setupBridge", "createVethPair">>
        /\ attach[b].result = "ok"
        /\ attach[b].warnings = {"NatRuleWarning"}
        /\ runningContainers[attach[a].id].Status = StatusRunning
        /\ procs[attach[a].pid].state = "alive"

\* the form of C16: an optional sign, one or more decimal digits, and at most
\* one suffix k, m or g in either case
DecimalPart(str) ==
    LET low == SuffixTrim(ToLower(str))
    IN  IF Len(low) > 0 /\ low[1] \in {"+", "-"} THEN Tail(low) ELSE low

OfTheForm(str) ==
    /\ DecimalPart(str) # <<>>
    /\ \A i \in 1..Len(DecimalPart(str)) : IsDigit(DecimalPart(str)[i])

\* n * 2^(10k) as a number, in NLimbs + 3 limbs
Exact(str) ==
    LET k == SuffixShift(ToLower(str))
        n == Magnitude(DecimalPart(str))
    IN  [i \in 1..(NLimbs + 3) |->
            IF i <= k \/ i - k > NLimbs THEN 0 ELSE n[i - k]]

Widen(L) == [i \in 1..(NLimbs + 3) |-> IF i <= Len(L) THEN L[i] ELSE 0]

\* C16 as stated: an input of the form gives exactly n * 2^10, n * 2^20,
\* n * 2^30 or n bytes whenever parseMemoryLimit returns a value for it, and
\* every other input fails.
C16_ParseExact ==
    parsed.called =>
        IF OfTheForm(memoryLimit)
        THEN ~parsed.err => Widen(parsed.mag) = Exact(memoryLimit)
        ELSE parsed.err

\* C19 as stated: a call of ApplyResourceLimits in which one dimension fails
\* leaves what was written before in place, and has still called the setup
\* function of every dimension present in the configuration.
C19_DimensionsIndependent ==
    applied.called =>
        \A d \in {"memory", "cpuset", "cpu"} :
            Present(applied.config, d) => d \in applied.ran

\* C26: a NewContainer call that returns an id has saved a record whose name
\* is the first 12 characters of that id when config.Name was empty, and
\* config.Name itself otherwise.
C26_RecordNameAssigned ==
    [][last'.op = "Create" /\ last'.result = "ok" =>
        \A cfgName \in ReqNames, cfgNet \in NetModes,
           id \in generateContainerId(issued),
           rootfs \in RootfsOutcomes, pid \in Pids \cup {NoPid},
           resErr \in BOOLEAN, netErr \in BOOLEAN :
            /\ StepOutcomes(cfgNet, rootfs, pid, resErr, netErr)
            /\ NewContainer(cfgName, cfgNet, id, rootfs, pid, resErr, netErr)
            => /\ last'.id = id
               /\ id \in DOMAIN runningContainers'
               /\ cfgName = "" => runningContainers'[id].Name = IdPrefix(id)
               /\ cfgName # "" => runningContainers'[id].Name = cfgName
      ]_vars

\* one record carries the first 12 characters of its id, another the
\* requested name "web"
C26_Witness ==
    \E c, d \in DOMAIN runningContainers :
        /\ runningContainers[c].Name = IdPrefix(c)
        /\ runningContainers[d].Name = "web"

\* C27 as stated: every container directory on disk belongs to a record in
\* the registry.
C27_DirectoriesHaveRecords ==
    \A id \in dirs : id \in DOMAIN runningContainers

\* C28: in every cgroup directory the tasks file is written only when the
\* directory and every limit file of the dimension are written, and a call
\* of ApplyResourceLimits in which the setup function of a dimension fails
\* does not write the tasks file of that dimension.
C28_TasksAfterLimits ==
    [][/\ \A p \in ResPids, d \in {"memory", "cpuset", "cpu"} :
             "tasks" \in cgroups'[p][d] =>
                 \A i \in 1..Len(SetupSteps(d)) : SetupSteps(d)[i] \in cgroups'[p][d]
       /\ applied'.failed # "none" =>
             ("tasks" \in cgroups'[applied'.pid][applied'.failed]
                 => "tasks" \in cgroups[applied'.pid][applied'.failed])
      ]_vars

\* a call failed in the memory dimension after the limit was written; the
\* process is not in the tasks file
C28_Witness ==
    /\ applied.called
    /\ applied.failed = "memory"
    /\ "memory.limit_in_bytes" \in cgroups[applied.pid]["memory"]
    /\ "tasks" \notin cgroups[applied.pid]["memory"]

\* C29 as stated: when setupBridge has just returned nil to a call, and no
\* other call is inside setupBridge, the bridge device exists, has the
\* gateway address and is up.
C29_BridgeReadyOnSuccess ==
    \A a \in Attachers :
        /\ attach[a].at = "createVethPair"
        /\ \A b \in Attachers \ {a} :
              attach[b].at \notin {"setupBridge", "bridge_add", "bridge_addr", "bridge_up"}
        => bridge.exists /\ bridge.addr /\ bridge.up

\* C25: the address allocateIP returns has the prefix of the fixed block and
\* a last octet in 2..253, whatever the pid of the process.
C25_AllocatedOctetInRange ==
    allocated.called =>
        /\ allocated.ip.prefix = DefaultIPPrefix
        /\ allocated.ip.octet \in 2..253

\* addresses were allocated in processes whose pid is a multiple of 254, or
\* one more: the octet is the replacement value
C25_Witness ==
    /\ allocated.called
    /\ ospid % 254 < 2
    /\ ospid > 254
    /\ allocated.ip.octet = 100

\* C24: SetupNetwork with mode host or none runs no command, leaves the
\* bridge alone and returns a NetworkConfig with the mode and no address,
\* gateway or subnet; with a mode other than bridge, host and none it runs
\* no command and returns an error and no NetworkConfig.
C24_ModesWithoutAction ==
    [][\A a \in Attachers, mode \in AllModes, id \in Ids :
        (\/ AttachDirect(a, mode, id)
         \/ /\ last'.result = "ok"
            /\ \E cfgName \in ReqNames, pid \in Pids :
                  AttachBegin(a, cfgName, mode, id, pid))
        => /\ mode \in {HostMode, NoneMode} =>
                /\ attach'[a].at = "returned"
                /\ attach'[a].result = "ok"
                /\ attach'[a].gotConfig
                /\ attach'[a].netConfig = [NoNetConfig EXCEPT !.Mode = mode]
                /\ attach'[a].ran = <<>>
                /\ bridge' = bridge
           /\ mode \notin {BridgeMode, HostMode, NoneMode} =>
                /\ attach'[a].at = "returned"
                /\ attach'[a].result = "NetworkSetupError"
                /\ ~attach'[a].gotConfig
                /\ attach'[a].ran = <<>>
                /\ bridge' = bridge
      ]_vars

\* one call returned the configuration of mode none, another was refused
\* for its mode
C24_Witness ==
    \E a, b \in Attachers :
        /\ attach[a].at = "returned"
        /\ attach[a].netConfig.Mode = NoneMode
        /\ attach[a].gotConfig
        /\ attach[b].at = "returned"
        /\ attach[b].cause = "UnsupportedMode"

\* C30 as stated: whenever the signal sequence of StopContainer runs (called
\* directly or by RemoveContainer), the process it signals has not been
\* reaped.
C30_NoSignalAfterReap ==
    [][\A g \in Callers, termOk \in BOOLEAN, killOk \in BOOLEAN :
        ConcStopSignal(g, termOk, killOk) => procs[callers[g].pid].state # "none"
      ]_vars

\* the steps of InitContainer in their order
InitOrder == <<"setHostname", "setupContainerMounts", "Chroot", "Chdir", "Exec">>

IsPrefix(p, q) == Len(p) <= Len(q) /\ SubSeq(q, 1, Len(p)) = p

\* C21: the init process calls its steps in the order setHostname,
\* setupContainerMounts, Chroot, Chdir, Exec; the root is changed only when
\* every step of setupContainerMounts has passed; a step that fails ends
\* the process with exit code 1 and nothing runs after it.
C21_InitOrder ==
    [][/\ IsPrefix(init'.ran, InitOrder)
       /\ IsPrefix(init.ran, init'.ran)
       /\ Len(init'.ran) <= Len(init.ran) + 1
       /\ ("Chroot" \in {init'.ran[k] : k \in 1..Len(init'.ran)} \/ init'.root # "")
             => init'.mounted = Len(MountSteps)
       /\ init'.error # "none" => init'.at = "exited" /\ init'.exit = 1
       /\ init.at = "exited" => init' = init
       /\ (\/ SetHostname(FALSE) \/ MountStep("failed") \/ Chroot(FALSE)
           \/ Chdir(FALSE) \/ LookPath(FALSE) \/ Exec(FALSE))
             => init'.at = "exited" /\ init'.exit = 1
      ]_vars

\* the init process ran all its steps and went on as the command
C21_Witness ==
    /\ init.at = "execed"
    /\ init.ran = InitOrder
    /\ init.root = BootRootfs
    /\ init.cwd = "/"

\* C22: an init process whose environment lacks CONTAINER_ROOTFS or
\* CONTAINER_CMD ends with MissingConfiguration and exit code 1, and has
\* set no hostname, mounted nothing and not changed its root.
C22_MissingConfigurationFirst ==
    /\ init.error = "MissingConfiguration" =>
          /\ init.exit = 1
          /\ init.ran = <<>>
          /\ ~init.hostnameSet
          /\ init.mounted = 0
          /\ init.root = ""
          /\ init.cwd = ""
    /\ (environ.CONTAINER_ROOTFS = "" \/ environ.CONTAINER_CMD = <<>>) =>
          \/ init = InitEntered
          \/ init.error = "MissingConfiguration"

\* the environment has the rootfs but no command, and the init process has
\* ended with MissingConfiguration
C22_Witness ==
    /\ environ.CONTAINER_ROOTFS = BootRootfs
    /\ environ.CONTAINER_CMD = <<>>
    /\ init.error = "MissingConfiguration"
    /\ init.at = "exited"

NoSpaces(cmd) == \A i \in 1..Len(cmd) : ~HasSpace(cmd[i])

\* C23: for a non-empty command vector none of whose arguments contains a
\* space, splitting the joined string gives the vector back, and so does the
\* init process started with it; a vector with a space in an argument comes
\* back longer.
C23_HandoffRoundTrip ==
    /\ command # <<>> /\ NoSpaces(command) => Split(Join(command)) = command
    /\ ~NoSpaces(command) => Len(Split(Join(command))) > Len(command)
    /\ (environ.CONTAINER_CMD = Join(command) /\ init.cmdParts # <<>>) =>
          /\ NoSpaces(command) => init.cmdParts = command
          /\ ~NoSpaces(command) => Len(init.cmdParts) > Len(command)

\* an init process went on as a command of two arguments without spaces,
\* with the arguments the parent had
C23_Witness ==
    /\ init.at = "execed"
    /\ Len(command) = 2
    /\ NoSpaces(command)
    /\ command[1] # <<>>
    /\ init.cmdParts = command
====
